---- MODULE Spec2Model ----
(***************************************************************************)
(* The jacktrack data model (server/app/models.py): the SQLAlchemy schema  *)
(* of users, ingredients, meals, daily logs and workouts, with its unique, *)
(* check and foreign-key constraints, the ORM relationship cascades, and   *)
(* the two macro computations Ingredient.scale_macros and                  *)
(* Meal.calculate_totals.                                                  *)
(*                                                                         *)
(* The store is the SQLite database of server/app/__init__.py.  A caller   *)
(* works through an ORM session: it stages a unit of work and commits it;  *)
(* the commit flushes the SQL in one transaction and rolls everything back *)
(* when a statement fails.  A user is kept as its id alone.                *)
(*                                                                         *)
(* Four specifications run the same operations: Spec (every table, one     *)
(* caller at a time), SpecLibrary (users and ingredients), SpecConcurrent  *)
(* (two callers whose reads and commits interleave) and SpecCalc (the      *)
(* computations, over the databases InitCalc draws).                       *)
(***************************************************************************)
EXTENDS Integers, Sequences, FiniteSets, TLC

\* ------------------------------------------------------------------ bounds
MaxUsers == 2
MaxIngredients == 2
MaxMeals == 2
MaxMealIngredients == 2
MaxDailyLogs == 1
MaxDailyLogMeals == 2
MaxWorkoutSessions == 1
MaxWorkoutExercises == 1
MaxRows == 5
MaxCalcRows == 3

Callers == {1, 2}
IngredientNames == {"rice"}
LibraryNames == {"rice", "oats"}
MealNames == {"lunch"}
LogDates == {1}

VARIABLES
    users,              \* set of user ids                      (table users)
    ingredients,        \* set of rows of table ingredients
    meals,              \* set of rows of table meals
    meal_ingredients,   \* set of rows of table meal_ingredients
    daily_logs,         \* set of rows of table daily_logs
    daily_log_meals,    \* set of rows of table daily_log_meals
    workout_sessions,   \* set of rows of table workout_sessions
    workout_exercises,  \* set of rows of table workout_exercises
    foreign_keys,       \* whether the store enforces foreign keys
    session,            \* per caller: the unit of work staged in its ORM session
    last,               \* the last operation and its outcome
    calc                \* the last computed macros (never stored in a table)

tables == <<users, ingredients, meals, meal_ingredients, daily_logs,
            daily_log_meals, workout_sessions, workout_exercises>>
vars == <<users, ingredients, meals, meal_ingredients, daily_logs,
          daily_log_meals, workout_sessions, workout_exercises, foreign_keys,
          session, last, calc>>

\* ---------------------------------------------------------------- helpers
Max(S) == IF S = {} THEN 0 ELSE CHOOSE x \in S : \A y \in S : y <= x

Ids(rows) == {r.id : r \in rows}

\* id = db.Column(db.Integer, primary_key=True): the store hands out the next
\* row id after the largest one in the table.
NextId(rows) == Max(Ids(rows)) + 1

\* The whole database as one value, for the statements below.
DB == [users |-> users, ingredients |-> ingredients, meals |-> meals,
       meal_ingredients |-> meal_ingredients, daily_logs |-> daily_logs,
       daily_log_meals |-> daily_log_meals,
       workout_sessions |-> workout_sessions,
       workout_exercises |-> workout_exercises,
       foreign_keys |-> foreign_keys]

Ok(db) == [ok |-> TRUE, err |-> "ok", db |-> db]
Fail(db, e) == [ok |-> FALSE, err |-> e, db |-> db]

\* ------------------------------------------------------------ Float values
\* db.Float columns and Python floats: binary floating point numbers
\* (-1)^neg * m * 2^e with a mantissa of MantissaBits bits, every operation
\* rounded to the nearest such number, ties to the even mantissa.  Zero is
\* m = 0; a nonzero number is kept normalised, 2^(MantissaBits-1) <= m.
\* Exponents are unbounded here (no overflow to inf, no subnormals).
MantissaBits == 12

\* The float nearest to (n / d) * 2^k, for integers n >= 0 and d > 0.
RECURSIVE RoundRat(_, _, _)
RoundRat(n, d, k) ==
    IF n = 0 THEN [m |-> 0, e |-> 0]
    ELSE IF n >= d * 2^MantissaBits THEN RoundRat(n, 2 * d, k + 1)
    ELSE IF n < d * 2^(MantissaBits - 1) THEN RoundRat(2 * n, d, k - 1)
    ELSE LET q == n \div d
             r == n % d
             m == IF 2 * r > d \/ (2 * r = d /\ q % 2 = 1) THEN q + 1 ELSE q
         IN  IF m = 2^MantissaBits
             THEN [m |-> 2^(MantissaBits - 1), e |-> k + 1]
             ELSE [m |-> m, e |-> k]

Signed(neg, x) == [neg |-> neg /\ x.m > 0, m |-> x.m, e |-> x.e]

\* The float a decimal literal n/d (or -n/d) is read as.
Dec(n, d) == Signed(FALSE, RoundRat(n, d, 0))
NegDec(n, d) == Signed(TRUE, RoundRat(n, d, 0))
Zero == Dec(0, 1)

IsNegative(x) == x.neg /\ x.m > 0
IsPositive(x) == ~x.neg /\ x.m > 0

\* x * y
FMul(x, y) == Signed(x.neg # y.neg, RoundRat(x.m * y.m, 1, x.e + y.e))

\* x / y, y nonzero
FDiv(x, y) == Signed(x.neg # y.neg, RoundRat(x.m, y.m, x.e - y.e))

\* x + y.  An operand below a quarter of the other's last place cannot move
\* the rounded sum.
FAdd(x, y) ==
    IF x.m = 0 THEN y
    ELSE IF y.m = 0 THEN x
    ELSE LET hi == IF x.e >= y.e THEN x ELSE y
             lo == IF x.e >= y.e THEN y ELSE x
             dif == hi.e - lo.e
         IN  IF dif >= MantissaBits + 2 THEN hi
             ELSE LET a == hi.m * 2^dif
                      b == lo.m
                  IN  IF hi.neg = lo.neg
                      THEN Signed(hi.neg, RoundRat(a + b, 1, lo.e))
                      ELSE IF a >= b
                           THEN Signed(hi.neg, RoundRat(a - b, 1, lo.e))
                           ELSE Signed(lo.neg, RoundRat(b - a, 1, lo.e))

Fields == {"calories", "protein", "carbs", "fat", "fiber"}

\* scale_macros without its division by 100.0
ScaleMacrosPerGram(macros, quantity_grams) ==
    [key \in Fields |-> FMul(macros[key], quantity_grams)]

\* ------------------------------------------------------------- Ingredient
\* Ingredient.scale_macros(quantity_grams)
ScaleMacros(macros, quantity_grams) ==
    LET multiplier == FDiv(quantity_grams, Dec(100, 1))
    IN  [key \in Fields |-> FMul(macros[key], multiplier)]

\* ------------------------------------------------------------------- Meal
\* calculate_totals' loop with `=` for `+=`
SumRowsAssign(totals, rows, macros_of) ==
    IF rows = <<>> THEN totals
    ELSE LET mi == rows[Len(rows)]
         IN  ScaleMacros(macros_of[mi.ingredient_id], mi.quantity_grams)

\* Meal.calculate_totals(), the rows of self.meal_ingredients being iterated
\* in the order of the sequence `rows`; `macros_of` gives mi.ingredient's fields.
RECURSIVE SumRows(_, _, _)
SumRows(totals, rows, macros_of) ==
    IF rows = <<>> THEN totals
    ELSE LET mi == Head(rows)
             macros == ScaleMacros(macros_of[mi.ingredient_id], mi.quantity_grams)
         IN  SumRows([key \in Fields |-> FAdd(totals[key], macros[key])],
                     Tail(rows), macros_of)

\* calculate_totals adding the ingredients' fields as stored, unscaled
CalculateTotalsUnscaled(rows, macros_of) ==
    SumRows([key \in Fields |-> Zero],
            [i \in 1..Len(rows) |-> [rows[i] EXCEPT !.quantity_grams = Dec(100, 1)]],
            macros_of)

CalculateTotals(rows, macros_of) ==
    SumRows([key \in Fields |-> Zero], rows, macros_of)

\* ------------------------------------------------- the store's statements
\* Each statement takes the database and gives Ok(the new database) or
\* Fail(the constraint that refused it).  A row's CHECK constraints are
\* tested first, then its UNIQUE constraints, then its foreign keys.
\* SQLite enforces the foreign keys, and takes their ON DELETE actions, only
\* on a connection that has set PRAGMA foreign_keys = ON (db.foreign_keys).

\* INSERT INTO users
SqlInsertUser(db, id) == Ok([db EXCEPT !.users = @ \cup {id}])

\* the name unique over the whole table, not per user
IngredientNameTakenByAnyone(db, id, user_id, name) ==
    \E r \in db.ingredients : r.id # id /\ r.name = name

\* uq_ingredients_user_id_name
IngredientNameTaken(db, id, user_id, name) ==
    \E r \in db.ingredients : r.id # id /\ r.user_id = user_id /\ r.name = name

\* ck_ingredients_<field>_nonnegative, the five of them
MacrosNonNegative(macros) == \A key \in Fields : ~IsNegative(macros[key])

\* INSERT INTO ingredients
SqlInsertIngredient(db, row) ==
    IF ~MacrosNonNegative(row.macros) THEN Fail(db, "ck_ingredients_nonnegative")
    ELSE IF IngredientNameTaken(db, row.id, row.user_id, row.name)
         THEN Fail(db, "uq_ingredients_user_id_name")
    ELSE IF db.foreign_keys /\ (row.user_id \notin db.users)
         THEN Fail(db, "fk_parent_missing")
    ELSE Ok([db EXCEPT !.ingredients = @ \cup {row}])

\* UPDATE ingredients SET name, calories, ... WHERE id = row.id
SqlUpdateIngredient(db, row) ==
    IF ~MacrosNonNegative(row.macros) THEN Fail(db, "ck_ingredients_nonnegative")
    ELSE IF IngredientNameTaken(db, row.id, row.user_id, row.name)
         THEN Fail(db, "uq_ingredients_user_id_name")
    ELSE Ok([db EXCEPT !.ingredients = {r \in @ : r.id # row.id} \cup {row}])

\* INSERT INTO meals
SqlInsertMeal(db, row) ==
    IF \E r \in db.meals : r.user_id = row.user_id /\ r.name = row.name
    THEN Fail(db, "uq_meals_user_id_name")
    ELSE IF db.foreign_keys /\ (row.user_id \notin db.users)
         THEN Fail(db, "fk_parent_missing")
    ELSE Ok([db EXCEPT !.meals = @ \cup {row}])

\* INSERT INTO meal_ingredients
SqlInsertMealIngredient(db, row) ==
    IF ~IsPositive(row.quantity_grams) THEN Fail(db, "ck_meal_ingredients_qty_positive")
    ELSE IF /\ db.foreign_keys
            /\ \/ row.meal_id \notin Ids(db.meals)
               \/ row.ingredient_id \notin Ids(db.ingredients)
         THEN Fail(db, "fk_parent_missing")
    ELSE Ok([db EXCEPT !.meal_ingredients = @ \cup {row}])

\* INSERT INTO daily_logs
SqlInsertDailyLog(db, row) ==
    IF \E r \in db.daily_logs : r.user_id = row.user_id /\ r.log_date = row.log_date
    THEN Fail(db, "uq_daily_logs_user_id_log_date")
    ELSE IF db.foreign_keys /\ (row.user_id \notin db.users)
         THEN Fail(db, "fk_parent_missing")
    ELSE Ok([db EXCEPT !.daily_logs = @ \cup {row}])

\* uq_daily_log_meals_daily_log_id_meal_id
Attached(db, daily_log_id, meal_id) ==
    \E r \in db.daily_log_meals : r.daily_log_id = daily_log_id /\ r.meal_id = meal_id

\* INSERT INTO daily_log_meals without uq_daily_log_meals_daily_log_id_meal_id
SqlInsertDailyLogMealTwice(db, row) ==
    IF ~IsPositive(row.servings) THEN Fail(db, "ck_daily_log_meals_servings_positive")
    ELSE Ok([db EXCEPT !.daily_log_meals = @ \cup {row}])

\* INSERT INTO daily_log_meals
SqlInsertDailyLogMeal(db, row) ==
    IF ~IsPositive(row.servings) THEN Fail(db, "ck_daily_log_meals_servings_positive")
    ELSE IF Attached(db, row.daily_log_id, row.meal_id)
         THEN Fail(db, "uq_daily_log_meals_daily_log_id_meal_id")
    ELSE IF /\ db.foreign_keys
            /\ \/ row.daily_log_id \notin Ids(db.daily_logs)
               \/ row.meal_id \notin Ids(db.meals)
         THEN Fail(db, "fk_parent_missing")
    ELSE Ok([db EXCEPT !.daily_log_meals = @ \cup {row}])

\* INSERT INTO workout_sessions
SqlInsertWorkoutSession(db, row) ==
    IF db.foreign_keys /\ row.user_id \notin db.users
    THEN Fail(db, "fk_parent_missing")
    ELSE Ok([db EXCEPT !.workout_sessions = @ \cup {row}])

\* INSERT INTO workout_exercises
SqlInsertWorkoutExercise(db, row) ==
    IF db.foreign_keys /\ row.workout_session_id \notin Ids(db.workout_sessions)
    THEN Fail(db, "fk_parent_missing")
    ELSE Ok([db EXCEPT !.workout_exercises = @ \cup {row}])

\* DELETE FROM meal_ingredients WHERE id IN ids (nothing references the rows)
SqlDeleteMealIngredients(db, ids) ==
    Ok([db EXCEPT !.meal_ingredients = {r \in @ : r.id \notin ids}])

\* DELETE FROM daily_log_meals WHERE id IN ids
SqlDeleteDailyLogMeals(db, ids) ==
    Ok([db EXCEPT !.daily_log_meals = {r \in @ : r.id \notin ids}])

\* DELETE FROM workout_exercises WHERE id IN ids
SqlDeleteWorkoutExercises(db, ids) ==
    Ok([db EXCEPT !.workout_exercises = {r \in @ : r.id \notin ids}])

\* DELETE FROM ingredients WHERE id = id.
\* meal_ingredients.ingredient_id is ON DELETE RESTRICT.
SqlDeleteIngredient(db, id) ==
    IF db.foreign_keys /\ \E r \in db.meal_ingredients : r.ingredient_id = id
    THEN Fail(db, "fk_restrict")
    ELSE Ok([db EXCEPT !.ingredients = {r \in @ : r.id # id}])

\* DELETE FROM meals WHERE id = id.  daily_log_meals.meal_id is ON DELETE
\* RESTRICT, meal_ingredients.meal_id is ON DELETE CASCADE.
SqlDeleteMeal(db, id) ==
    IF db.foreign_keys /\ \E r \in db.daily_log_meals : r.meal_id = id
    THEN Fail(db, "fk_restrict")
    ELSE Ok([db EXCEPT !.meals = {r \in @ : r.id # id},
                       !.meal_ingredients =
                           {r \in @ : ~(db.foreign_keys /\ r.meal_id = id)}])

\* DELETE FROM daily_logs WHERE id = id.
\* daily_log_meals.daily_log_id is ON DELETE CASCADE.
SqlDeleteDailyLog(db, id) ==
    Ok([db EXCEPT !.daily_logs = {r \in @ : r.id # id},
                  !.daily_log_meals =
                      {r \in @ : ~(db.foreign_keys /\ r.daily_log_id = id)}])

\* DELETE FROM workout_sessions WHERE id = id.
\* workout_exercises.workout_session_id is ON DELETE CASCADE.
SqlDeleteWorkoutSession(db, id) ==
    Ok([db EXCEPT !.workout_sessions = {r \in @ : r.id # id},
                  !.workout_exercises =
                      {r \in @ : ~(db.foreign_keys /\ r.workout_session_id = id)}])

OwnedTables == {"ingredients", "meals", "daily_logs", "workout_sessions"}

SqlDeleteOwned(db, table, id) ==
    CASE table = "ingredients" -> SqlDeleteIngredient(db, id)
      [] table = "meals" -> SqlDeleteMeal(db, id)
      [] table = "daily_logs" -> SqlDeleteDailyLog(db, id)
      [] table = "workout_sessions" -> SqlDeleteWorkoutSession(db, id)

\* The rows of `table` with the given ids deleted one after the other; the
\* first refusal ends it.
RECURSIVE DeleteEach(_, _, _)
DeleteEach(res, table, ids) ==
    IF ~res.ok \/ ids = {} THEN res
    ELSE LET id == CHOOSE x \in ids : TRUE
         IN  DeleteEach(SqlDeleteOwned(res.db, table, id), table, ids \ {id})

\* The ON DELETE CASCADE of the four user_id foreign keys, taken in the
\* order `order` (which the store chooses): every row of each table that the
\* user owns is deleted, with that table's own referential actions.
RECURSIVE CascadeFromUser(_, _, _)
CascadeFromUser(res, user_id, order) ==
    IF ~res.ok \/ order = <<>> THEN res
    ELSE LET table == Head(order)
             ids == {r.id : r \in {x \in res.db[table] : x.user_id = user_id}}
         IN  CascadeFromUser(DeleteEach(res, table, ids), user_id, Tail(order))

\* DELETE FROM users WHERE id = id
SqlDeleteUser(db, id, order) ==
    IF db.foreign_keys
    THEN CascadeFromUser(Ok([db EXCEPT !.users = @ \ {id}]), id, order)
    ELSE Ok([db EXCEPT !.users = @ \ {id}])

\* The order of the class definitions in models.py.
DeclaredOrder == <<"ingredients", "meals", "daily_logs", "workout_sessions">>

\* The orders in which a store may take the four cascades.  No ON DELETE
\* RESTRICT key refers to workout_sessions or to its rows, so its place in
\* the order changes nothing and it is taken last.
CascadeOrders ==
    {o \in [1..4 -> OwnedTables] :
        /\ \A i, j \in 1..4 : i # j => o[i] # o[j]
        /\ o[4] = "workout_sessions"}

\* ------------------------------------------------------------ ORM session
\* session.delete(obj) marks obj and, through every relationship declared
\* cascade="all, delete-orphan", the objects of its collections that are
\* loaded in the session; passive_deletes=True keeps a collection that is
\* not loaded from being loaded for this.  The rows below are what the
\* cascade marks when the collections are loaded.
RowsTo(rows, column, ids) == {r.id : r \in {x \in rows : x[column] \in ids}}

OwnedBy(rows, user_id) == {r.id : r \in {x \in rows : x.user_id = user_id}}

LoadedCascade(db, kind, id) ==
    LET I == IF kind = "ingredients" THEN {id}
             ELSE IF kind = "users" THEN OwnedBy(db.ingredients, id) ELSE {}
        M == IF kind = "meals" THEN {id}
             ELSE IF kind = "users" THEN OwnedBy(db.meals, id) ELSE {}
        L == IF kind = "daily_logs" THEN {id}
             ELSE IF kind = "users" THEN OwnedBy(db.daily_logs, id) ELSE {}
        W == IF kind = "workout_sessions" THEN {id}
             ELSE IF kind = "users" THEN OwnedBy(db.workout_sessions, id) ELSE {}
    IN  [ingredients |-> I, meals |-> M, daily_logs |-> L, workout_sessions |-> W,
         meal_ingredients |-> RowsTo(db.meal_ingredients, "ingredient_id", I)
                              \cup RowsTo(db.meal_ingredients, "meal_id", M),
         daily_log_meals |-> RowsTo(db.daily_log_meals, "meal_id", M)
                             \cup RowsTo(db.daily_log_meals, "daily_log_id", L),
         workout_exercises |-> RowsTo(db.workout_exercises, "workout_session_id", W)]

\* What is marked when no collection is loaded: the object alone.
UnloadedCascade(kind, id) ==
    [ingredients |-> IF kind = "ingredients" THEN {id} ELSE {},
     meals |-> IF kind = "meals" THEN {id} ELSE {},
     daily_logs |-> IF kind = "daily_logs" THEN {id} ELSE {},
     workout_sessions |-> IF kind = "workout_sessions" THEN {id} ELSE {},
     meal_ingredients |-> {}, daily_log_meals |-> {}, workout_exercises |-> {}]

Kinds == {"users"} \cup OwnedTables

Exists(db, kind, id) ==
    IF kind = "users" THEN id \in db.users ELSE id \in Ids(db[kind])

RECURSIVE DeleteMarked(_, _, _)
DeleteMarked(res, marked, order) ==
    IF ~res.ok \/ order = <<>> THEN res
    ELSE DeleteMarked(DeleteEach(res, Head(order), marked[Head(order)]),
                      marked, Tail(order))

\* The flush of a staged delete: a DELETE for every marked row, dependent
\* tables first, then the owned tables (in the order `order`), then the user.
FlushDelete(db, kind, id, marked, order) ==
    LET r1 == SqlDeleteMealIngredients(db, marked.meal_ingredients)
        r2 == SqlDeleteDailyLogMeals(r1.db, marked.daily_log_meals)
        r3 == SqlDeleteWorkoutExercises(r2.db, marked.workout_exercises)
        r4 == DeleteMarked(r3, marked, order)
    IN  IF kind = "users" /\ r4.ok THEN SqlDeleteUser(r4.db, id, order) ELSE r4

\* What a caller's session holds between its reads and its commit: the
\* staged INSERT of a DailyLogMeal (daily_log_id, meal_id, servings), or the
\* staged delete of the object (kind, id) with the rows its cascade marked;
\* fresh: the operation was valid in the database the caller read.
NoPending ==
    [op |-> "none", kind |-> "none", id |-> 0, marked |-> {},
     daily_log_id |-> 0, meal_id |-> 0, servings |-> Zero, fresh |-> FALSE]

\* What `last` keeps of an operation: the constraint that refused it ("ok":
\* none did), and whether the operation was valid when its caller began it.
Done(outcome, fresh) == [outcome |-> outcome, fresh |-> fresh]

\* The transaction's end: the new database on success, a rollback otherwise.
Apply(res) ==
    IF res.ok
    THEN /\ users' = res.db.users
         /\ ingredients' = res.db.ingredients
         /\ meals' = res.db.meals
         /\ meal_ingredients' = res.db.meal_ingredients
         /\ daily_logs' = res.db.daily_logs
         /\ daily_log_meals' = res.db.daily_log_meals
         /\ workout_sessions' = res.db.workout_sessions
         /\ workout_exercises' = res.db.workout_exercises
         /\ UNCHANGED foreign_keys
    ELSE UNCHANGED <<tables, foreign_keys>>

NoCalc == [op |-> "none", id |-> 0, quantity_grams |-> Zero,
           value |-> [key \in Fields |-> Zero]]

\* The number of rows in the database, which MaxRows bounds.
RowCount ==
    Cardinality(users) + Cardinality(ingredients) + Cardinality(meals)
    + Cardinality(meal_ingredients) + Cardinality(daily_logs)
    + Cardinality(daily_log_meals) + Cardinality(workout_sessions)
    + Cardinality(workout_exercises)

\* A write to the database: nothing computed before it is kept.
Write(res, fresh) ==
    /\ Apply(res)
    /\ last' = Done(res.err, fresh)
    /\ calc' = NoCalc

\* ------------------------------------------------------------- operations
\* db.session.add(User(...)); commit
CreateUser ==
    /\ Max(users) + 1 <= MaxUsers /\ RowCount < MaxRows
    /\ Write(SqlInsertUser(DB, Max(users) + 1), TRUE)
    /\ UNCHANGED session

\* db.session.add(Ingredient(user_id, name, calories, ...)); commit
CreateIngredient(user_id, name, macros) ==
    LET row == [id |-> NextId(ingredients), user_id |-> user_id, name |-> name,
                macros |-> macros]
        res == SqlInsertIngredient(DB, row)
    IN  /\ user_id \in users
        /\ res.ok => (NextId(ingredients) <= MaxIngredients /\ RowCount < MaxRows)
        /\ Write(res, TRUE)
        /\ UNCHANGED session

\* ingredient.name = name; ingredient.calories = ...; commit
UpdateIngredient(id, name, macros) ==
    /\ id \in Ids(ingredients)
    /\ LET old == CHOOSE r \in ingredients : r.id = id
           row == [old EXCEPT !.name = name, !.macros = macros]
           res == SqlUpdateIngredient(DB, row)
       IN  Write(res, TRUE)
    /\ UNCHANGED session

\* db.session.add(Meal(user_id, name)); commit
CreateMeal(user_id, name) ==
    LET row == [id |-> NextId(meals), user_id |-> user_id, name |-> name]
        res == SqlInsertMeal(DB, row)
    IN  /\ user_id \in users
        /\ res.ok => (NextId(meals) <= MaxMeals /\ RowCount < MaxRows)
        /\ Write(res, TRUE)
        /\ UNCHANGED session

\* db.session.add(MealIngredient(meal_id, ingredient_id, quantity_grams)); commit
AddMealIngredient(meal_id, ingredient_id, quantity_grams) ==
    LET row == [id |-> NextId(meal_ingredients), meal_id |-> meal_id,
                ingredient_id |-> ingredient_id, quantity_grams |-> quantity_grams]
        res == SqlInsertMealIngredient(DB, row)
    IN  /\ meal_id \in Ids(meals) /\ ingredient_id \in Ids(ingredients)
        /\ res.ok => (NextId(meal_ingredients) <= MaxMealIngredients /\ RowCount < MaxRows)
        /\ Write(res, TRUE)
        /\ UNCHANGED session

\* db.session.delete(meal_ingredient); commit
RemoveMealIngredient(id) ==
    /\ id \in Ids(meal_ingredients)
    /\ Write(SqlDeleteMealIngredients(DB, {id}), TRUE)
    /\ UNCHANGED session

\* db.session.add(DailyLog(user_id, log_date)); commit
CreateDailyLog(user_id, log_date) ==
    LET row == [id |-> NextId(daily_logs), user_id |-> user_id, log_date |-> log_date]
        res == SqlInsertDailyLog(DB, row)
    IN  /\ user_id \in users
        /\ res.ok => (NextId(daily_logs) <= MaxDailyLogs /\ RowCount < MaxRows)
        /\ Write(res, TRUE)
        /\ UNCHANGED session

\* db.session.delete(daily_log_meal); commit
DetachMeal(id) ==
    /\ id \in Ids(daily_log_meals)
    /\ Write(SqlDeleteDailyLogMeals(DB, {id}), TRUE)
    /\ UNCHANGED session

\* db.session.add(WorkoutSession(user_id)); commit
CreateWorkoutSession(user_id) ==
    LET row == [id |-> NextId(workout_sessions), user_id |-> user_id]
        res == SqlInsertWorkoutSession(DB, row)
    IN  /\ user_id \in users
        /\ res.ok => (NextId(workout_sessions) <= MaxWorkoutSessions /\ RowCount < MaxRows)
        /\ Write(res, TRUE)
        /\ UNCHANGED session

\* db.session.add(WorkoutExercise(workout_session_id, name)); commit
AddExercise(workout_session_id) ==
    LET row == [id |-> NextId(workout_exercises),
                workout_session_id |-> workout_session_id]
        res == SqlInsertWorkoutExercise(DB, row)
    IN  /\ workout_session_id \in Ids(workout_sessions)
        /\ res.ok => (NextId(workout_exercises) <= MaxWorkoutExercises /\ RowCount < MaxRows)
        /\ Write(res, TRUE)
        /\ UNCHANGED session

\* No row refers to the object through an ON DELETE RESTRICT foreign key.
Unreferenced(db, kind, id) ==
    CASE kind = "ingredients" -> ~\E r \in db.meal_ingredients : r.ingredient_id = id
      [] kind = "meals" -> ~\E r \in db.daily_log_meals : r.meal_id = id
      [] OTHER -> TRUE

\* obj = <Model>.query.get(id); db.session.delete(obj); commit.  `loaded`:
\* whether the collections of the object (and of the objects in them) are
\* loaded in the caller's session when it flushes.
Delete(kind, id, loaded, order) ==
    /\ Exists(DB, kind, id)
    /\ LET marked == IF loaded THEN LoadedCascade(DB, kind, id)
                     ELSE UnloadedCascade(kind, id)
           res == FlushDelete(DB, kind, id, marked, order)
       IN  Write(res, Unreferenced(DB, kind, id))
    /\ UNCHANGED session

\* A caller, holding a DailyLog and a Meal it has read, stages
\* db.session.add(DailyLogMeal(daily_log_id, meal_id, servings)).
BeginAttach(c, daily_log_id, meal_id, servings) ==
    /\ session[c].op = "none"
    /\ daily_log_id \in Ids(daily_logs)
    /\ meal_id \in Ids(meals)
    /\ session' = [session EXCEPT ![c] =
           [NoPending EXCEPT !.op = "attach_meal", !.daily_log_id = daily_log_id,
                             !.meal_id = meal_id, !.servings = servings,
                             !.fresh = ~Attached(DB, daily_log_id, meal_id)]]
    /\ UNCHANGED <<tables, foreign_keys, last, calc>>

\* db.session.commit(): the staged INSERT is flushed in a transaction of its
\* own; an IntegrityError rolls it back.
CommitAttach(c) ==
    LET p == session[c]
        row == [id |-> NextId(daily_log_meals), daily_log_id |-> p.daily_log_id,
                meal_id |-> p.meal_id, servings |-> p.servings]
        res == SqlInsertDailyLogMeal(DB, row)
    IN  /\ p.op = "attach_meal"
        /\ res.ok => NextId(daily_log_meals) <= MaxDailyLogMeals
        /\ Write(res, p.fresh)
        /\ session' = [session EXCEPT ![c] = NoPending]

\* The same by a caller that nothing interleaves with:
\* db.session.add(DailyLogMeal(daily_log_id, meal_id, servings)); commit
AttachMeal(daily_log_id, meal_id, servings) ==
    LET row == [id |-> NextId(daily_log_meals), daily_log_id |-> daily_log_id,
                meal_id |-> meal_id, servings |-> servings]
        res == SqlInsertDailyLogMeal(DB, row)
    IN  /\ daily_log_id \in Ids(daily_logs) /\ meal_id \in Ids(meals)
        /\ res.ok => (NextId(daily_log_meals) <= MaxDailyLogMeals /\ RowCount < MaxRows)
        /\ Write(res, TRUE)
        /\ UNCHANGED session

\* A caller reads the object, with its collections (`loaded`) or without,
\* and stages db.session.delete(obj).
BeginDelete(c, kind, id, loaded) ==
    /\ session[c].op = "none"
    /\ Exists(DB, kind, id)
    /\ session' = [session EXCEPT ![c] =
           [NoPending EXCEPT !.op = "delete", !.kind = kind, !.id = id,
                             !.marked = IF loaded THEN LoadedCascade(DB, kind, id)
                                        ELSE UnloadedCascade(kind, id),
                             !.fresh = Unreferenced(DB, kind, id)]]
    /\ UNCHANGED <<tables, foreign_keys, last, calc>>

\* db.session.commit(): the staged delete is flushed, on the database as it
\* is by then; an IntegrityError rolls it back.
CommitDelete(c, order) ==
    LET p == session[c]
        res == FlushDelete(DB, p.kind, p.id, p.marked, order)
    IN  /\ p.op = "delete"
        /\ Write(res, p.fresh)
        /\ session' = [session EXCEPT ![c] = NoPending]

\* db.session.rollback(): what is staged is dropped.
Rollback(c) ==
    /\ session[c].op # "none"
    /\ session' = [session EXCEPT ![c] = NoPending]
    /\ UNCHANGED <<tables, foreign_keys, last, calc>>

\* ----------------------------------------------------------- computations
\* The sequences that hold every element of S once: the orders in which a
\* SELECT without ORDER BY may return the rows S.
Orders(S) ==
    {o \in [1..Cardinality(S) -> S] :
        \A i, j \in 1..Cardinality(S) : i # j => o[i] # o[j]}

\* ingredient_id -> the macros of that Ingredient, as stored now
MacrosOf == [id \in Ids(ingredients) |->
                (CHOOSE r \in ingredients : r.id = id).macros]

\* meal.meal_ingredients, in the order in which `order` holds its rows
RowsOfMeal(meal_id, order) == SelectSeq(order, LAMBDA r : r.meal_id = meal_id)

\* The orders of meal_ingredients, each meal's rows in any order.
RECURSIVE TableOrders(_)
TableOrders(meal_ids) ==
    IF meal_ids = {} THEN {<<>>}
    ELSE LET m == Max(meal_ids)
         IN  {a \o b : a \in TableOrders(meal_ids \ {m}),
                       b \in Orders({r \in meal_ingredients : r.meal_id = m})}

\* ingredient.scale_macros(quantity_grams)
ScaleIngredient(id, quantity_grams) ==
    /\ id \in Ids(ingredients)
    /\ calc.op = "none"
    /\ calc' = [op |-> "scale_macros", id |-> id, quantity_grams |-> quantity_grams,
                value |-> ScaleMacros(MacrosOf[id], quantity_grams)]
    /\ UNCHANGED <<tables, foreign_keys, session, last>>

\* meal.calculate_totals()
TotalMeal(id, order) ==
    /\ id \in Ids(meals)
    /\ calc.op = "none"
    /\ calc' = [op |-> "calculate_totals", id |-> id, quantity_grams |-> Zero,
                value |-> CalculateTotals(RowsOfMeal(id, order), MacrosOf)]
    /\ UNCHANGED <<tables, foreign_keys, session, last>>

\* The day's totals (spec 4.3): over the log's attachments, in the order in
\* which `attachments` holds them, the meal's totals times the servings.
RECURSIVE SumAttachments(_, _, _)
SumAttachments(totals, attachments, order) ==
    IF attachments = <<>> THEN totals
    ELSE LET dlm == Head(attachments)
             meal == CalculateTotals(RowsOfMeal(dlm.meal_id, order), MacrosOf)
         IN  SumAttachments(
                 [key \in Fields |-> FAdd(totals[key], FMul(meal[key], dlm.servings))],
                 Tail(attachments), order)

DayTotals(attachments, order) ==
    SumAttachments([key \in Fields |-> Zero], attachments, order)

AttachmentsOf(daily_log_id) == {r \in daily_log_meals : r.daily_log_id = daily_log_id}

TotalDay(id, attachments, order) ==
    /\ id \in Ids(daily_logs)
    /\ calc.op = "none"
    /\ calc' = [op |-> "day_totals", id |-> id, quantity_grams |-> Zero,
                value |-> DayTotals(attachments, order)]
    /\ UNCHANGED <<tables, foreign_keys, session, last>>

\* The computed value is returned to the caller.
Return ==
    /\ calc.op # "none"
    /\ calc' = NoCalc
    /\ UNCHANGED <<tables, foreign_keys, session, last>>

\* ---------------------------------------------------------------- inputs
\* The spec's example ingredient, per 100 g.
ChickenBreast ==
    [calories |-> Dec(165, 1), protein |-> Dec(31, 1), carbs |-> Zero,
     fat |-> Dec(36, 10), fiber |-> Zero]

NegativeFat == [ChickenBreast EXCEPT !.fat = NegDec(1, 1)]

MacroInputs == {ChickenBreast, NegativeFat}
QuantityInputs == {Dec(150, 1), Zero}
ServingsInputs == {Dec(1, 1), Dec(2, 1), Zero}

\* A second ingredient, with fields no binary float holds exactly.
Rice ==
    [calories |-> Dec(130, 1), protein |-> Dec(27, 10), carbs |-> Dec(28, 1),
     fat |-> Dec(3, 10), fiber |-> Dec(4, 10)]

ScaleInputs == {Dec(150, 1), Dec(85, 1), Dec(5, 10), Zero}
CalcServings == {Dec(1, 1), Dec(2, 1)}

\* ---------------------------------------------------------- specification
Init ==
    /\ users = {}
    /\ ingredients = {}
    /\ meals = {}
    /\ meal_ingredients = {}
    /\ daily_logs = {}
    /\ daily_log_meals = {}
    /\ workout_sessions = {}
    /\ workout_exercises = {}
    /\ foreign_keys \in BOOLEAN
    /\ session = [c \in Callers |-> NoPending]
    /\ last = Done("ok", TRUE)
    /\ calc = NoCalc

Next ==
    \/ CreateUser
    \/ \E u \in 1..MaxUsers, n \in IngredientNames, mac \in MacroInputs :
          CreateIngredient(u, n, mac)
    \/ \E i \in 1..MaxIngredients, n \in IngredientNames, mac \in MacroInputs :
          UpdateIngredient(i, n, mac)
    \/ \E u \in 1..MaxUsers, n \in MealNames : CreateMeal(u, n)
    \/ \E m \in 1..MaxMeals, i \in 1..MaxIngredients, g \in QuantityInputs :
          AddMealIngredient(m, i, g)
    \/ \E id \in 1..MaxMealIngredients : RemoveMealIngredient(id)
    \/ \E u \in 1..MaxUsers, d \in LogDates : CreateDailyLog(u, d)
    \/ \E id \in 1..MaxDailyLogMeals : DetachMeal(id)
    \/ \E u \in 1..MaxUsers : CreateWorkoutSession(u)
    \/ \E w \in 1..MaxWorkoutSessions : AddExercise(w)
    \/ \E kind \in Kinds, id \in 1..2, loaded \in BOOLEAN :
          \E order \in (IF kind = "users" THEN CascadeOrders ELSE {DeclaredOrder}) :
             Delete(kind, id, loaded, order)
    \/ \E l \in 1..MaxDailyLogs, m \in 1..MaxMeals, s \in ServingsInputs :
          AttachMeal(l, m, s)

Spec == Init /\ [][Next]_vars

\* ------------------------------------------------- the computations' runs
\* A database the operations above can build: one user with the two
\* ingredients, meal 1 of up to MaxCalcRows rows, meal 2 of 150 g of chicken
\* breast, and one daily log with any of the two meals attached.
CalcRowOptions ==
    <<<<1, Dec(150, 1)>>, <<1, Dec(85, 1)>>, <<2, Dec(150, 1)>>, <<2, Dec(85, 1)>>>>

\* The rows of meal 1, in the order of their ids: operations that differ
\* only in the order in which they added the same rows are taken once.
CalcRowSeqs ==
    UNION {{s \in [1..n -> 1..Len(CalcRowOptions)] :
               \A i \in 1..(n - 1) : s[i] <= s[i + 1]} : n \in 0..MaxCalcRows}

InitCalc ==
    /\ users = {1}
    /\ ingredients =
          {[id |-> 1, user_id |-> 1, name |-> "chicken breast", macros |-> ChickenBreast],
           [id |-> 2, user_id |-> 1, name |-> "rice", macros |-> Rice]}
    /\ meals = {[id |-> 1, user_id |-> 1, name |-> "dinner"],
                [id |-> 2, user_id |-> 1, name |-> "lunch"]}
    /\ \E rows \in CalcRowSeqs :
          meal_ingredients =
             {[id |-> i, meal_id |-> 1, ingredient_id |-> CalcRowOptions[rows[i]][1],
               quantity_grams |-> CalcRowOptions[rows[i]][2]] : i \in 1..Len(rows)}
             \cup {[id |-> Len(rows) + 1, meal_id |-> 2, ingredient_id |-> 1,
                    quantity_grams |-> Dec(150, 1)]}
    /\ daily_logs = {[id |-> 1, user_id |-> 1, log_date |-> 1]}
    /\ \E attached \in SUBSET (1..2) : \E servings \in [attached -> CalcServings] :
          daily_log_meals =
             {[id |-> m, daily_log_id |-> 1, meal_id |-> m, servings |-> servings[m]] :
                m \in attached}
    /\ workout_sessions = {}
    /\ workout_exercises = {}
    /\ foreign_keys \in BOOLEAN
    /\ session = [c \in Callers |-> NoPending]
    /\ last = Done("ok", TRUE)
    /\ calc = NoCalc

NextCalc ==
    \/ \E i \in 1..2, g \in ScaleInputs : ScaleIngredient(i, g)
    \/ \E m \in 1..2 : \E order \in TableOrders(Ids(meals)) : TotalMeal(m, order)
    \/ \E l \in 1..1 : \E attachments \in Orders(AttachmentsOf(l)) :
          \E order \in TableOrders(Ids(meals)) : TotalDay(l, attachments, order)
    \/ Return

SpecCalc == InitCalc /\ [][NextCalc]_vars

\* ------------------------------------------------ two callers, interleaved
\* One user's two meals and daily log, with the attaching, the detaching and
\* the deleting done by two callers whose reads and commits interleave.
InitConcurrent ==
    /\ users = {1}
    /\ ingredients = {}
    /\ meals = {[id |-> 1, user_id |-> 1, name |-> "lunch"],
                [id |-> 2, user_id |-> 1, name |-> "dinner"]}
    /\ meal_ingredients = {}
    /\ daily_logs = {[id |-> 1, user_id |-> 1, log_date |-> 1]}
    /\ daily_log_meals = {}
    /\ workout_sessions = {}
    /\ workout_exercises = {}
    /\ foreign_keys \in BOOLEAN
    /\ session = [c \in Callers |-> NoPending]
    /\ last = Done("ok", TRUE)
    /\ calc = NoCalc

NextConcurrent ==
    \/ \E c \in Callers, l \in 1..1, m \in 1..2, s \in ServingsInputs :
          BeginAttach(c, l, m, s)
    \/ \E c \in Callers : CommitAttach(c)
    \/ \E id \in 1..MaxDailyLogMeals : DetachMeal(id)
    \/ \E c \in Callers, kind \in {"meals", "daily_logs"}, id \in 1..2,
          loaded \in BOOLEAN : BeginDelete(c, kind, id, loaded)
    \/ \E c \in Callers : CommitDelete(c, DeclaredOrder)
    \/ \E c \in Callers : Rollback(c)

SpecConcurrent == InitConcurrent /\ [][NextConcurrent]_vars

\* ------------------------------------------------- the ingredient library
\* The operations that write the tables users and ingredients.
NextLibrary ==
    \/ CreateUser
    \/ \E u \in 1..MaxUsers, n \in LibraryNames, mac \in MacroInputs :
          CreateIngredient(u, n, mac)
    \/ \E i \in 1..MaxIngredients, n \in LibraryNames, mac \in MacroInputs :
          UpdateIngredient(i, n, mac)
    \/ \E kind \in {"users", "ingredients"}, id \in 1..MaxUsers, loaded \in BOOLEAN :
          Delete(kind, id, loaded, DeclaredOrder)

SpecLibrary == Init /\ [][NextLibrary]_vars

\* ------------------------------------------------------------ exact values
\* n * 2^e, n an integer: the real number a float holds, and the sums and
\* products of such numbers, none of them rounded.
RECURSIVE Strip(_, _)
Strip(n, e) ==
    IF n = 0 THEN [n |-> 0, e |-> 0]
    ELSE IF n % 2 = 0 THEN Strip(n \div 2, e + 1)
    ELSE [n |-> n, e |-> e]

Exact(x) == Strip(IF x.neg THEN -x.m ELSE x.m, x.e)
ExactInt(n) == Strip(n, 0)
ExactMul(a, b) == Strip(a.n * b.n, a.e + b.e)
ExactNeg(a) == [n |-> -a.n, e |-> a.e]
ExactAbs(a) == [n |-> IF a.n < 0 THEN -a.n ELSE a.n, e |-> a.e]
ExactAdd(a, b) ==
    IF a.n = 0 THEN b
    ELSE IF b.n = 0 THEN a
    ELSE LET e == IF a.e <= b.e THEN a.e ELSE b.e
         IN  Strip(a.n * 2^(a.e - e) + b.n * 2^(b.e - e), e)

\* a <= b, for a >= 0 and b >= 0
ExactLe(a, b) ==
    IF a.n = 0 THEN TRUE
    ELSE IF b.n = 0 THEN FALSE
    ELSE IF a.e >= b.e
         THEN a.e - b.e <= 30 /\ a.n <= b.n \div 2^(a.e - b.e)
         ELSE b.e - a.e > 30 \/ (a.n + 2^(b.e - a.e) - 1) \div 2^(b.e - a.e) <= b.n

\* |x - hundredfold / 100| <= ulps * 2^-MantissaBits * hundredfold / 100
Within(x, hundredfold, ulps) ==
    LET d == ExactAbs(ExactAdd(ExactMul(Exact(x), ExactInt(100)), ExactNeg(hundredfold)))
    IN  /\ hundredfold.n >= 0
        /\ ExactLe([n |-> d.n, e |-> d.e + MantissaBits],
                   ExactMul(hundredfold, ExactInt(ulps)))

RECURSIVE ExactSum(_, _)
ExactSum(S, term) ==
    IF S = {} THEN ExactInt(0)
    ELSE LET r == CHOOSE x \in S : TRUE
         IN  ExactAdd(term[r], ExactSum(S \ {r}, term))

\* 100 * (field * quantity_grams / 100), exactly
HundredfoldScale(id, key, quantity_grams) ==
    ExactMul(Exact(MacrosOf[id][key]), Exact(quantity_grams))

RowsOf(meal_id) == {r \in meal_ingredients : r.meal_id = meal_id}

\* 100 * the sum over the meal's rows of field * quantity_grams / 100
HundredfoldMeal(meal_id, key) ==
    ExactSum(RowsOf(meal_id),
             [r \in RowsOf(meal_id) |->
                 HundredfoldScale(r.ingredient_id, key, r.quantity_grams)])

\* 100 * the sum over the log's attachments of the meal's sum * servings
HundredfoldDay(daily_log_id, key) ==
    ExactSum(AttachmentsOf(daily_log_id),
             [r \in AttachmentsOf(daily_log_id) |->
                 ExactMul(HundredfoldMeal(r.meal_id, key), Exact(r.servings))])

ZeroMacros == [key \in Fields |-> Zero]

\* --------------------------------------------------------------- claims
\* C3 (amended).  scale_macros(g) returns, for each field, the float product
\* of the stored field and the float quotient g / 100.0: a value within
\* 3 * 2^-MantissaBits, relatively, of field * g / 100, and 0.0 for every
\* field when g = 0; the call changes no stored row.
C3_ScaleMacrosRounded ==
    /\ [](calc.op = "scale_macros" =>
            \A key \in Fields :
               /\ calc.value[key] =
                     FMul(MacrosOf[calc.id][key], FDiv(calc.quantity_grams, Dec(100, 1)))
               /\ Within(calc.value[key],
                         HundredfoldScale(calc.id, key, calc.quantity_grams), 3)
               /\ calc.quantity_grams = Zero => calc.value[key] = Zero)
    /\ [][calc'.op = "scale_macros" => UNCHANGED tables]_vars

\* C3, witness: a scaling whose result is not field * g / 100.
C3_Witness ==
    /\ calc.op = "scale_macros"
    /\ \E key \in Fields :
          ExactMul(Exact(calc.value[key]), ExactInt(100))
             # HundredfoldScale(calc.id, key, calc.quantity_grams)

\* C3 as stated: the result is exactly field * g / 100, here even in the
\* weaker reading of the float expression field * g / 100.
C3_ScaleMacrosExact ==
    calc.op = "scale_macros" =>
       \A key \in Fields :
          calc.value[key] =
             FDiv(FMul(MacrosOf[calc.id][key], calc.quantity_grams), Dec(100, 1))

\* C1 (amended).  calculate_totals() returns, for each field, the float sum
\* of the rows' scaled values, added one by one from 0.0 in the order in which
\* meal_ingredients is iterated: 0.0 for a meal without rows, the same in
\* every order for a meal of one or two rows, and in every order within
\* (n + 3) * 2^-MantissaBits, relatively, of the n rows' exact sum.
C1_TotalsRounded ==
    calc.op = "calculate_totals" =>
       LET rows == RowsOf(calc.id)
           n == Cardinality(rows)
       IN  /\ rows = {} => calc.value = ZeroMacros
           /\ n <= 2 =>
                 \A order \in Orders(rows) :
                    calc.value = SumRows(ZeroMacros, order, MacrosOf)
           /\ \E order \in Orders(rows) :
                 calc.value = SumRows(ZeroMacros, order, MacrosOf)
           /\ \A key \in Fields :
                 Within(calc.value[key], HundredfoldMeal(calc.id, key), n + 3)

\* C1, witness: the totals of a meal of three rows, which another order of
\* the rows would not give.
C1_Witness ==
    /\ calc.op = "calculate_totals"
    /\ Cardinality(RowsOf(calc.id)) = 3
    /\ \E order \in Orders(RowsOf(calc.id)) :
          calc.value # CalculateTotals(order, MacrosOf)

\* C1 as stated: the totals are the same whatever the order of the rows.
C1_TotalsAnyOrder ==
    calc.op = "calculate_totals" =>
       \A order \in Orders(RowsOf(calc.id)) :
          calc.value = CalculateTotals(order, MacrosOf)

C4_IngredientDeleteBlocked ==
    [][\A id \in 1..MaxIngredients, loaded \in BOOLEAN :
          Delete("ingredients", id, loaded, DeclaredOrder) =>
             IF \E r \in meal_ingredients : r.ingredient_id = id
             THEN last'.outcome = "fk_restrict" /\ UNCHANGED tables
             ELSE last'.outcome = "ok" /\ id \notin Ids(ingredients')]_vars

\* C5.  [][a delete of a Meal that some DailyLogMeal row refers to is refused
\* and changes no row; a delete of one that none refers to removes the Meal
\* and its MealIngredient rows and no Ingredient]
C5_MealDeleteBlocked ==
    [][\A id \in 1..MaxMeals, loaded \in BOOLEAN :
          Delete("meals", id, loaded, DeclaredOrder) =>
             IF \E r \in daily_log_meals : r.meal_id = id
             THEN last'.outcome = "fk_restrict" /\ UNCHANGED tables
             ELSE /\ last'.outcome = "ok"
                  /\ id \notin Ids(meals')
                  /\ meal_ingredients' = {r \in meal_ingredients : r.meal_id # id}
                  /\ ingredients' = ingredients]_vars

\* C6.  [][a delete of a User succeeds, and leaves no Ingredient, Meal,
\* DailyLog or WorkoutSession of the user and no MealIngredient, DailyLogMeal
\* or WorkoutExercise row of theirs]
C6_UserDeleteCascades ==
    [][\A id \in 1..MaxUsers, loaded \in BOOLEAN, order \in CascadeOrders :
          Delete("users", id, loaded, order) =>
             /\ last'.outcome = "ok"
             /\ id \notin users'
             /\ OwnedBy(ingredients', id) = {} /\ OwnedBy(meals', id) = {}
             /\ OwnedBy(daily_logs', id) = {} /\ OwnedBy(workout_sessions', id) = {}
             /\ \A r \in meal_ingredients' :
                   /\ r.meal_id \notin OwnedBy(meals, id)
                   /\ r.ingredient_id \notin OwnedBy(ingredients, id)
             /\ \A r \in daily_log_meals' :
                   /\ r.daily_log_id \notin OwnedBy(daily_logs, id)
                   /\ r.meal_id \notin OwnedBy(meals, id)
             /\ \A r \in workout_exercises' :
                   r.workout_session_id \notin OwnedBy(workout_sessions, id)]_vars

\* C8.  Every MealIngredient row links a Meal and an Ingredient of one user,
\* and every DailyLogMeal row a DailyLog and a Meal of one user.
C8_NoCrossUserRows ==
    /\ \A r \in meal_ingredients, m \in meals, i \in ingredients :
          r.meal_id = m.id /\ r.ingredient_id = i.id => m.user_id = i.user_id
    /\ \A r \in daily_log_meals, l \in daily_logs, m \in meals :
          r.daily_log_id = l.id /\ r.meal_id = m.id => l.user_id = m.user_id

\* C9.  No two Ingredients of one user have the same name; [][a create with a
\* name the user already has is refused and changes no row; a create of valid
\* fields with a name that no Ingredient of the user has, whoever else has
\* it, adds the row]
C9_IngredientNameUnique ==
    /\ [](\A a, b \in ingredients :
             a.user_id = b.user_id /\ a.name = b.name => a = b)
    /\ [][\A u \in 1..MaxUsers, n \in LibraryNames, mac \in MacroInputs :
             CreateIngredient(u, n, mac) =>
                IF \E r \in ingredients : r.user_id = u /\ r.name = n
                THEN /\ last'.outcome \in {"uq_ingredients_user_id_name",
                                           "ck_ingredients_nonnegative"}
                     /\ UNCHANGED tables
                ELSE MacrosNonNegative(mac) =>
                        /\ last'.outcome = "ok"
                        /\ ingredients' = ingredients \cup
                              {[id |-> NextId(ingredients), user_id |-> u,
                                name |-> n, macros |-> mac]}]_vars

\* C9, witness: two users each have an Ingredient of the same name, and a
\* second one of that name has just been refused.
C9_Witness ==
    /\ last.outcome = "uq_ingredients_user_id_name"
    /\ \E a, b \in ingredients : a.user_id # b.user_id /\ a.name = b.name

\* C7.  No two DailyLogMeal rows have the same (daily_log_id, meal_id);
\* [][the commit of an attach of a pair that is attached by then is refused
\* and changes no row, whether or not the pair was attached when the caller
\* began; the commit of a valid attach of a pair that is not attached, as
\* after a detach, adds the row]
C7_AttachmentUnique ==
    /\ [](\A a, b \in daily_log_meals :
             a.daily_log_id = b.daily_log_id /\ a.meal_id = b.meal_id => a = b)
    /\ [][\A c \in Callers :
             CommitAttach(c) =>
                LET p == session[c]
                IN  IF Attached(DB, p.daily_log_id, p.meal_id)
                    THEN /\ last'.outcome \in
                               {"uq_daily_log_meals_daily_log_id_meal_id",
                                "ck_daily_log_meals_servings_positive"}
                         /\ UNCHANGED tables
                    ELSE /\ IsPositive(p.servings)
                         /\ p.daily_log_id \in Ids(daily_logs)
                         /\ p.meal_id \in Ids(meals)
                         => /\ last'.outcome = "ok"
                            /\ daily_log_meals' = daily_log_meals \cup
                                  {[id |-> NextId(daily_log_meals),
                                    daily_log_id |-> p.daily_log_id,
                                    meal_id |-> p.meal_id,
                                    servings |-> p.servings]}]_vars

\* C7, witness: of two callers that began to attach the same pair while it
\* was not attached, the second to commit has just been refused.
C7_Witness ==
    /\ last.outcome = "uq_daily_log_meals_daily_log_id_meal_id"
    /\ last.fresh
    /\ daily_log_meals # {}

\* C10.  No DailyLogMeal row refers to a Meal that is not there; [][the
\* commit of a delete of a Meal that is attached by then is refused and
\* changes no row, and so is the commit of an attach of a Meal that is
\* deleted by then]
C10_MealDeleteAtomic ==
    /\ [](\A r \in daily_log_meals : r.meal_id \in Ids(meals))
    /\ [][\A c \in Callers :
             /\ CommitDelete(c, DeclaredOrder) /\ session[c].kind = "meals"
                /\ (\E r \in daily_log_meals : r.meal_id = session[c].id)
                => last'.outcome = "fk_restrict" /\ UNCHANGED tables
             /\ CommitAttach(c) /\ session[c].meal_id \notin Ids(meals)
                => last'.outcome # "ok" /\ UNCHANGED tables]_vars

====
